---- MODULE Spec2Model ----
(***************************************************************************)
(* Model of the radoff integration: the cloud API client (api.py), the     *)
(* poll coordinator (coordinator.py) and the config entry setup            *)
(* (__init__.py).  One coordinator drives one client; the position of the  *)
(* coordinator inside a refresh is the variable pc, one position per       *)
(* network exchange of the client.                                         *)
(***************************************************************************)
EXTENDS Integers, Sequences, FiniteSets, TLC

VARIABLES
    username, password, client_id,   \* API credentials (api.py 121-123)
    connected, domain, tokens,       \* API session (api.py 126-128)
    pc,                              \* position of the coordinator / client
    firstRefresh,                    \* refresh started by async_config_entry_first_refresh
    connCaller,                      \* who called connect(): "coordinator" or "check"
    connOutcome,                     \* how connect() ended: "True" or the exception raised
    reqKind,                         \* request whose response is being checked
    respStatus,                      \* status_code of the response last received
    devices,                         \* response.json()["devices"] of get_devices
    idx,                             \* position of the for loop of get_devices
    device_list,                     \* device_list of get_devices
    telemetry_reqs,                  \* device ids _get_data sent a request for
    exc,                             \* exception propagating out of the try block
    data,                            \* coordinator.data (the Snapshot)
    last_update_success,             \* coordinator.last_update_success
    last_exception,                  \* what the last failed refresh raised
    hass_data,                       \* hass.data
    platform_setup,                  \* sensor platform forwarded for the entry
    dataAtStart,                     \* history: coordinator.data when the refresh began
    badFrom,                         \* history: request that got a non-200 in this refresh
    sawDisconnected,                 \* history: connected was false since that response
    request,                         \* headers of the request whose response is awaited
    calls,                           \* history: calls and requests made by this refresh
    healed,                          \* history: session the reconnect of the last refresh obtained
    env_good,                        \* the cloud and the identity provider have recovered
    since_good,                      \* history: refreshes ended since they recovered
    options,                         \* config_entry.options
    poll_interval,                   \* coordinator.poll_interval
    result_in,                       \* a telemetry response given to _get_data
    sensors_out,                     \* the sensors _get_data returned for it
    entities,                        \* the sensor entities added for the entry
    other_entry                      \* state of a second config entry of the integration

vars == <<username, password, client_id, connected, domain, tokens, pc,
          firstRefresh, connCaller, connOutcome, reqKind, respStatus, devices,
          idx, device_list, telemetry_reqs, exc, data, last_update_success,
          last_exception, hass_data, platform_setup, dataAtStart, badFrom,
          sawDisconnected, request, calls, healed, env_good, since_good,
          options, poll_interval, result_in, sensors_out, entities,
          other_entry>>

credVars == <<username, password, client_id>>
sessionVars == <<connected, domain, tokens>>
loopVars == <<devices, idx, device_list, telemetry_reqs>>
coordVars == <<data, last_update_success, last_exception, dataAtStart>>
hassVars == <<hass_data, platform_setup>>
envVars == <<env_good, since_good>>
configVars == <<options, result_in, sensors_out, other_entry>>
pureVars == <<configVars, entities>>

----------------------------------------------------------------------------
(* Bounds of the model *)

MaxDevices == 2     \* longest device search response
MaxDomains == 2     \* longest domain discovery response
MaxCounted == 2     \* refreshes counted after the environment recovered
MaxProps == 2       \* longest property list of a telemetry group
MaxInterval == 12   \* largest poll interval override, in seconds

----------------------------------------------------------------------------
(* Constants of the program *)

RADOFF_DOMAIN == "radoff"
DEVICE_TYPES == {"Now+"}
PARENT_DOMAIN == "94e966f9-e0b2-11ec-a450-02ab88ac9cd7"
HTTP_OK == 200
controller_name == "cloud_poller"
CONF_SCAN_INTERVAL == "scan_interval"
DEFAULT_SCAN_INTERVAL == 60
MIN_SCAN_INTERVAL == 10
entry_id == "entry1"
other_entry_id == "entry2"

None == [None |-> TRUE]
NoneStr == "<None>"     \* None where the other values are strings
EmptyDict == [k \in {} |-> ""]

----------------------------------------------------------------------------
(* What the environment can answer *)

CredentialValues == {"", "x"}
TokenIds == {"t1", "t2"}
StatusCodes == {200, 401, 500}

\* connection.authenticate_user(): raises, or returns None, a dict without
\* "AuthenticationResult" (a challenge), or a dict with it (with or without
\* an "IdToken").
AuthResults ==
    {[raises |-> "ClientError"]}
    \cup {[auth_data |-> None]}
    \cup {[auth_data |-> [ChallengeName |-> "NEW_PASSWORD_REQUIRED"]]}
    \cup {[auth_data |-> [AuthenticationResult |-> [IdToken |-> t]]] : t \in TokenIds}
    \cup {[auth_data |-> [AuthenticationResult |-> [AccessToken |-> "a"]]]}

DomainRecords ==
    [id : {"", "d1", "d2"}, parentDomainId : {PARENT_DOMAIN, "other"}]

SeqsUpTo(S, n) == UNION {[1..k -> S] : k \in 0..n}

\* response.json() of the domain discovery: a body without "domains", or one
\* with a list of domains.
DomainBodies ==
    {[message |-> "error"]}
    \cup {[domains |-> s] : s \in SeqsUpTo(DomainRecords, MaxDomains)}

RawDevices ==
    { [id |-> "a", serial |-> "sa", deviceTypeName |-> "Now+", name |-> "na"],
      [id |-> "b", serial |-> "sb", deviceTypeName |-> "Now+", name |-> "nb"],
      [id |-> "c", serial |-> "sc", deviceTypeName |-> "Other", name |-> "nc"],
      [id |-> "d", serial |-> "sd", name |-> "nd"] }

SearchBodies ==
    {[message |-> "error"]}
    \cup {[devices |-> s] : s \in SeqsUpTo(RawDevices, MaxDevices)}

TelemetryBodies ==
    { [data |-> [data |-> << [propertyName |-> "tvoc", value |-> 5],
                             [propertyName |-> "vendor_extra", value |-> 1] >>]],
      [data |-> [data |-> << [propertyName |-> "internal_temperature", value |-> 100] >>,
                 aggregatedData |-> << [propertyName |-> "airqualityindex",
                                        aggregationValue |-> 3] >>]] }

\* property objects of a telemetry response: a name of the "data" table only,
\* a name of both tables and a name of no table, each with an instantaneous
\* value or with an aggregation value
PropertyNames == {"tvoc", "airqualityindex", "vendor_extra"}

PropertyObjects ==
    {[propertyName |-> n, value |-> 5] : n \in PropertyNames}
    \cup {[propertyName |-> n, aggregationValue |-> 3] : n \in PropertyNames}

\* a group that may be missing: <<>> when missing, <<list>> when present
OptionalGroups == {<<>>} \cup {<<l>> : l \in SeqsUpTo(PropertyObjects, MaxProps)}

VendorGroups == {<<>>, << <<[propertyName |-> "tvoc", value |-> 5]>> >>}

TelemetryGroups(d, a, x) ==
    [k \in {g \in {"data", "aggregatedData", "vendorData"} :
                \/ g = "data" /\ d # <<>>
                \/ g = "aggregatedData" /\ a # <<>>
                \/ g = "vendorData" /\ x # <<>>}
        |-> IF k = "data" THEN d[1] ELSE IF k = "aggregatedData" THEN a[1] ELSE x[1]]

\* the bodies response.json() can return to _get_data
TelemetryResults ==
    {[data |-> TelemetryGroups(d, a, x)] :
        d \in OptionalGroups, a \in OptionalGroups, x \in VendorGroups}

----------------------------------------------------------------------------
(* api.py: static tables and pure helpers *)

Descriptor(dc, fname, unit, fn) ==
    [deviceClass |-> dc, friendlyName |-> fname, unit |-> unit, normalize_fn |-> fn]

MAPPING ==
    [ data |->
        [ tvoc |-> Descriptor("volatile_organic_compounds", "VOC", "unit_voc", "None"),
          eco2 |-> Descriptor("carbon_dioxide", "Co2", "unit_co2", "None"),
          pm10 |-> Descriptor("pm10", "PM10", "unit_pm10", "None"),
          pm25 |-> Descriptor("pm25", "PM2.5", "unit_pm25", "None"),
          pm1 |-> Descriptor("pm1", "PM1", "unit_pm1", "None"),
          internal_temperature |->
              Descriptor("temperature", "Temperature", "CELSIUS", "raw_to_celsius"),
          relative_humidity |-> Descriptor("humidity", "Humidity", "unit_humidity", "None"),
          pressure |-> Descriptor("pressure", "Pressure", "PA", "None"),
          airqualityindex |-> Descriptor("aqi", "Air Quality", "None", "None") ],
      aggregatedData |->
        [ airqualityindex |-> Descriptor("aqi", "Air Quality", "None", "None") ] ]

MAPPING_ORDER == <<"data", "aggregatedData">>

\* the RadoffSensor dataclass built at api.py 229-236
RadoffSensor(pn, av, obj_map) ==
    [name |-> pn, value |-> av, device_class |-> obj_map.deviceClass,
     friendly_name |-> obj_map.friendlyName, unit |-> obj_map.unit,
     normalize_fn |-> obj_map.normalize_fn]

\* sensors[pn] = ... : a dict assignment
DictSet(d, k, v) == [x \in (DOMAIN d) \cup {k} |-> IF x = k THEN v ELSE d[x]]

\* inner loop of _get_data over the objects of one group
RECURSIVE MapGroup(_, _, _)
MapGroup(sensors, v, objs) ==
    IF objs = <<>> THEN sensors
    ELSE LET obj == Head(objs)
             pn == obj.propertyName
             av == IF "value" \in DOMAIN obj THEN obj.value ELSE obj.aggregationValue
         IN  MapGroup(IF pn \in DOMAIN v
                          THEN DictSet(sensors, pn, RadoffSensor(pn, av, v[pn]))
                          ELSE sensors,
                      v, Tail(objs))

\* outer loop of _get_data over MAPPING.items()
RECURSIVE MapSensors(_, _, _)
MapSensors(sensors, result, groups) ==
    IF groups = <<>> THEN sensors
    ELSE LET k == Head(groups)
         IN  MapSensors(IF k \in DOMAIN result.data
                            THEN MapGroup(sensors, MAPPING[k], result.data[k])
                            ELSE sensors,
                        result, Tail(groups))

\* a _get_data that looks every group up in the table of the "data" group
get_data_sensors_oneTable(result) ==
    LET fromData == IF "data" \in DOMAIN result.data
                       THEN MapGroup(EmptyDict, MAPPING["data"], result.data["data"])
                       ELSE EmptyDict
    IN  IF "aggregatedData" \in DOMAIN result.data
           THEN MapGroup(fromData, MAPPING["data"], result.data["aggregatedData"])
           ELSE fromData

\* the sensors _get_data returns for the body result
get_data_sensors(result) == MapSensors(EmptyDict, result, MAPPING_ORDER)

\* the subscripts of _get_data that raise KeyError on a body
get_data_raises(result) ==
    \/ "data" \notin DOMAIN result
    \/ \E k \in DOMAIN MAPPING :
          /\ k \in DOMAIN result.data
          /\ \E i \in 1..Len(result.data[k]) :
                LET obj == result.data[k][i]
                IN  \/ "propertyName" \notin DOMAIN obj
                    \/ /\ "value" \notin DOMAIN obj
                       /\ "aggregationValue" \notin DOMAIN obj

\* a filter that only asks for the key and forgets the allow-list
IsSupported_anyType(device) ==
    "deviceTypeName" \in DOMAIN device

\* the filter of the loop of get_devices
IsSupported(device) ==
    "deviceTypeName" \in DOMAIN device /\ device.deviceTypeName \in DEVICE_TYPES

\* the Device dataclass built at api.py 188-194
Device(device, sensors) ==
    [device_id |-> device.id, device_serial |-> device.serial,
     device_type |-> device.deviceTypeName, name |-> device.name,
     sensors |-> sensors]

\* _get_bearer_token: the condition under which it returns tokens["IdToken"]
HasBearerToken(t) == t # None /\ "IdToken" \in DOMAIN t

\* the loop of _get_domain over resp_json["domains"]
RECURSIVE get_domain(_)
get_domain(domains) ==
    IF domains = <<>> THEN NoneStr
    ELSE IF Head(domains).parentDomainId = PARENT_DOMAIN THEN Head(domains).id
    ELSE get_domain(Tail(domains))

\* a disconnect() that clears the tokens and the domain but not the flag
disconnect_keepsFlag ==
    [connected |-> connected, tokens |-> EmptyDict, domain |-> ""]

\* the session disconnect() leaves
disconnect ==
    [connected |-> FALSE, tokens |-> EmptyDict, domain |-> ""]

\* _get_headers: the headers that vary from request to request
get_headers(bearer_token, x_domain) ==
    [authorization |-> <<"Bearer ", bearer_token>>, x_domain |-> x_domain]

\* a request as requests.get / requests.post sends it
Request(url, headers) == [url |-> url, headers |-> headers]

NoCalls == [connect |-> 0, auth |-> 0, search |-> 0, after_fail |-> 0]

\* a connect() that keeps the tokens and raises the flag only later
store_tokens_flagLater(auth_data) ==
    [tokens |-> auth_data.AuthenticationResult, connected |-> connected]

\* connect(): self.tokens = auth_data["AuthenticationResult"]; self.connected = True
store_tokens(auth_data) ==
    [tokens |-> auth_data.AuthenticationResult, connected |-> TRUE]

\* a test that forgets the client id
CredentialsPresent_noClientId ==
    username # "" /\ password # ""

\* credentials test of connect()
CredentialsPresent == username # "" /\ password # "" /\ client_id # ""

----------------------------------------------------------------------------
(* coordinator.py: pure helpers *)

APIData(name, devs) == [controller_name |-> name, devices |-> devs]

UpdateFailed(msg, err) == [kind |-> "UpdateFailed", message |-> msg, cause |-> err]

\* except clauses without the catch-all: only APIAuthError is wrapped
HandleException_noCatchAll(err) ==
    IF err = "APIAuthError" THEN UpdateFailed("err", err)
    ELSE [kind |-> err, message |-> "err", cause |-> "none"]

\* the except clauses of async_update_data: what the refresh raises for err
HandleException(err) ==
    IF err = "APIAuthError" THEN UpdateFailed("err", err)
    ELSE UpdateFailed("Error communicating with API: err", err)

\* a test that is content with one of the two fields
DeviceMatches_eitherField(device, device_type, device_id) ==
    device.device_type = device_type \/ device.device_id = device_id

\* the test of the loop of get_device_by_id
DeviceMatches(device, device_type, device_id) ==
    device.device_type = device_type /\ device.device_id = device_id

\* loop of get_device_by_id over self.data.devices
RECURSIVE ScanDevices(_, _, _)
ScanDevices(devs, device_type, device_id) ==
    IF devs = <<>> THEN None
    ELSE IF DeviceMatches(Head(devs), device_type, device_id)
         THEN Head(devs)
    ELSE ScanDevices(Tail(devs), device_type, device_id)

get_device_by_id(device_type, device_id) ==
    ScanDevices(data.devices, device_type, device_id)

\* config_entry.options: no override, or an override of the poll interval
OptionRecords ==
    {EmptyDict} \cup {[scan_interval |-> n] : n \in 1..MaxInterval}

\* update_interval=timedelta(seconds=self.poll_interval), in seconds
update_interval == poll_interval

\* config_entry.options.get(CONF_SCAN_INTERVAL, DEFAULT_SCAN_INTERVAL)
get_poll_interval(opts) ==
    IF CONF_SCAN_INTERVAL \in DOMAIN opts THEN opts[CONF_SCAN_INTERVAL]
    ELSE DEFAULT_SCAN_INTERVAL

----------------------------------------------------------------------------
(* What the environment answers now: anything before it has recovered; after
   it the identity provider accepts the credentials, domain discovery returns
   a matching domain and the service answers 200 to a request that carries a
   token and a resolved domain *)

AuthAnswers ==
    IF env_good
       THEN {r \in AuthResults :
               /\ "auth_data" \in DOMAIN r
               /\ r.auth_data # None
               /\ "AuthenticationResult" \in DOMAIN r.auth_data
               /\ "IdToken" \in DOMAIN r.auth_data.AuthenticationResult}
       ELSE AuthResults

NetworkCanFail == ~env_good

DomainStatusAnswers == IF env_good THEN {HTTP_OK} ELSE StatusCodes

DomainAnswers ==
    IF env_good
       THEN {b \in DomainBodies :
               /\ "domains" \in DOMAIN b
               /\ get_domain(b.domains) \notin {NoneStr, ""}}
       ELSE DomainBodies

ServiceStatusAnswers(headers) ==
    IF env_good /\ headers.x_domain # "" THEN {HTTP_OK} ELSE StatusCodes

SearchAnswers ==
    IF env_good THEN {b \in SearchBodies : "devices" \in DOMAIN b}
    ELSE SearchBodies

----------------------------------------------------------------------------
(* Initial state: a config entry with its credentials, not yet set up *)

InitProgram ==
    /\ username \in CredentialValues
    /\ password \in CredentialValues
    /\ client_id \in CredentialValues
    /\ connected = FALSE
    /\ domain = ""
    /\ tokens = EmptyDict
    /\ pc = "not_loaded"
    /\ firstRefresh = FALSE
    /\ connCaller = "none"
    /\ connOutcome = "none"
    /\ reqKind = "none"
    /\ respStatus = 0
    /\ devices = <<>>
    /\ idx = 0
    /\ device_list = <<>>
    /\ telemetry_reqs = <<>>
    /\ exc = "none"
    /\ data = None
    /\ last_update_success = TRUE
    /\ last_exception = None
    /\ hass_data = EmptyDict
    /\ platform_setup = FALSE
    /\ dataAtStart = None
    /\ badFrom = "none"
    /\ sawDisconnected = FALSE
    /\ request = None
    /\ calls = NoCalls
    /\ healed = None
    /\ env_good = FALSE
    /\ since_good = 0
    /\ poll_interval = 0
    /\ entities = {}
    /\ other_entry = "not_loaded"

Init ==
    /\ InitProgram
    /\ options = EmptyDict
    /\ result_in = None
    /\ sensors_out = None

\* the locals of a refresh, as they are outside a refresh
ResetRefreshLocals ==
    /\ connCaller' = "none"
    /\ connOutcome' = "none"
    /\ reqKind' = "none"
    /\ respStatus' = 0
    /\ devices' = <<>>
    /\ idx' = 0
    /\ device_list' = <<>>
    /\ telemetry_reqs' = <<>>
    /\ exc' = "none"
    /\ badFrom' = "none"
    /\ sawDisconnected' = FALSE
    /\ request' = None
    /\ calls' = NoCalls

----------------------------------------------------------------------------
(* __init__.py: async_setup_entry up to the first refresh *)

\* hass.data.pop(DOMAIN, None)
pop(d, k) == [x \in (DOMAIN d) \ {k} |-> d[x]]

\* hass.data[DOMAIN][entry] can be read
HasRuntimeData(entry) ==
    /\ RADOFF_DOMAIN \in DOMAIN hass_data
    /\ entry \in DOMAIN hass_data[RADOFF_DOMAIN]

\* hass.data.setdefault(DOMAIN, {})
setdefault(d, k) == IF k \in DOMAIN d THEN d ELSE DictSet(d, k, EmptyDict)

\* a setup that registers the entry before the first refresh has run
async_setup_entry_storesFirst ==
    /\ pc \in {"not_loaded", "setup_aborted"}
    /\ hass_data' = DictSet(setdefault(hass_data, RADOFF_DOMAIN), RADOFF_DOMAIN,
                            DictSet(setdefault(hass_data, RADOFF_DOMAIN)[RADOFF_DOMAIN],
                                    entry_id, [coordinator |-> entry_id,
                                               cancel_update_listener |-> "listener"]))
    /\ platform_setup' = TRUE
    /\ connected' = FALSE
    /\ domain' = ""
    /\ tokens' = EmptyDict
    /\ data' = None
    /\ dataAtStart' = None
    /\ last_update_success' = TRUE
    /\ last_exception' = None
    /\ firstRefresh' = TRUE
    /\ pc' = "update"
    /\ healed' = None
    /\ poll_interval' = get_poll_interval(options)
    /\ ResetRefreshLocals
    /\ UNCHANGED <<credVars, pureVars, envVars>>

async_setup_entry ==
    /\ pc \in {"not_loaded", "setup_aborted"}
    /\ hass_data' = setdefault(hass_data, RADOFF_DOMAIN)
    \* RadoffCoordinator(hass, config_entry) builds a new API
    /\ connected' = FALSE
    /\ domain' = ""
    /\ tokens' = EmptyDict
    /\ data' = None
    /\ dataAtStart' = None
    /\ last_update_success' = TRUE
    /\ last_exception' = None
    \* coordinator.async_config_entry_first_refresh()
    /\ firstRefresh' = TRUE
    /\ pc' = "update"
    /\ healed' = None
    \* RadoffCoordinator.__init__ reads the poll interval of the entry
    /\ poll_interval' = get_poll_interval(options)
    /\ ResetRefreshLocals
    /\ UNCHANGED <<credVars, pureVars, envVars, platform_setup>>

\* the timer of the coordinator fires: a refresh starts when none is in flight
ScheduledRefresh ==
    /\ pc = "ready"
    /\ firstRefresh' = FALSE
    /\ dataAtStart' = data
    /\ pc' = "update"
    /\ ResetRefreshLocals
    /\ UNCHANGED <<credVars, pureVars, envVars, sessionVars, data,
                   last_update_success, last_exception, hassVars, healed,
                   poll_interval>>

----------------------------------------------------------------------------
(* coordinator.py: async_update_data *)

\* if not self.api.connected: connect(); then get_devices()
async_update_data ==
    /\ pc = "update"
    /\ IF ~connected
          THEN pc' = "connect" /\ connCaller' = "coordinator"
          ELSE pc' = "get_devices" /\ UNCHANGED connCaller
    /\ UNCHANGED <<credVars, pureVars, envVars, sessionVars, firstRefresh,
                   connOutcome, reqKind, respStatus, loopVars, exc, coordVars,
                   hassVars, badFrom, sawDisconnected, request, calls, healed,
                   poll_interval>>

----------------------------------------------------------------------------
(* api.py: connect *)

ConnectFrame ==
    UNCHANGED <<credVars, pureVars, envVars, firstRefresh, connCaller, reqKind,
                respStatus, loopVars, exc, coordVars, hassVars, badFrom,
                request, healed, poll_interval>>

\* connect() up to the domain discovery request
connect ==
    /\ pc = "connect"
    /\ IF ~CredentialsPresent
          THEN /\ connOutcome' = "APIAuthError"
               /\ pc' = "connect_done"
               /\ calls' = [calls EXCEPT !.connect = @ + 1]
               /\ UNCHANGED <<sessionVars, sawDisconnected>>
          ELSE /\ calls' = [calls EXCEPT !.connect = @ + 1, !.auth = @ + 1]
               /\ \E r \in AuthAnswers :
                 IF "raises" \in DOMAIN r
                    THEN /\ connOutcome' = r.raises
                         /\ pc' = "connect_done"
                         /\ UNCHANGED <<sessionVars, sawDisconnected>>
                 ELSE IF r.auth_data # None
                         /\ "AuthenticationResult" \in DOMAIN r.auth_data
                    THEN /\ tokens' = store_tokens(r.auth_data).tokens
                         /\ connected' = store_tokens(r.auth_data).connected
                         /\ UNCHANGED <<domain, sawDisconnected>>
                         /\ IF HasBearerToken(tokens')
                               THEN pc' = "get_domain" /\ UNCHANGED connOutcome
                               ELSE /\ connOutcome' = "BearerTokenNotFoundError"
                                    /\ pc' = "connect_done"
                    ELSE /\ connOutcome' = "True"
                         /\ pc' = "connect_done"
                         /\ UNCHANGED <<sessionVars, sawDisconnected>>
    /\ ConnectFrame

\* _get_domain: requests.get(...) raises or a response arrives
get_domain_request ==
    /\ pc = "get_domain"
    /\ request' = Request(<<"/auth/user/me/domains">>,
                          get_headers(tokens.IdToken, PARENT_DOMAIN))
    /\ \/ /\ NetworkCanFail
          /\ connOutcome' = "RequestException"
          /\ pc' = "connect_done"
          /\ UNCHANGED <<reqKind, respStatus>>
       \/ \E s \in DomainStatusAnswers :
            /\ respStatus' = s
            /\ reqKind' = "domain"
            /\ pc' = "domain_resp"
            /\ UNCHANGED connOutcome
    /\ UNCHANGED <<credVars, pureVars, envVars, sessionVars, firstRefresh,
                   connCaller, loopVars, exc, coordVars, hassVars, badFrom,
                   sawDisconnected, calls, healed, poll_interval>>

\* _get_domain from response.json() on, and the rest of connect()
get_domain_response ==
    /\ pc = "domain_resp"
    /\ \E body \in DomainAnswers :
         IF "domains" \notin DOMAIN body
            THEN /\ connOutcome' = "KeyError"
                 /\ UNCHANGED domain
            ELSE LET d == get_domain(body.domains)
                 IN  IF d # NoneStr /\ d # ""
                        THEN domain' = d /\ connOutcome' = "True"
                        ELSE /\ connOutcome' = "DomainNotFoundError"
                             /\ UNCHANGED domain
    /\ pc' = "connect_done"
    /\ UNCHANGED <<credVars, pureVars, envVars, connected, tokens, firstRefresh,
                   connCaller, reqKind, respStatus, loopVars, exc, coordVars,
                   hassVars, badFrom, sawDisconnected, request, calls, healed,
                   poll_interval>>

\* a _check_response_status that sends the search again after it reconnected
connect_return_retries ==
    /\ pc = "connect_done"
    /\ IF connOutcome = "True"
          THEN pc' = "get_devices" /\ UNCHANGED exc
          ELSE pc' = "raised" /\ exc' = connOutcome
    /\ UNCHANGED <<credVars, pureVars, envVars, sessionVars, firstRefresh,
                   connCaller, connOutcome, reqKind, respStatus, loopVars,
                   coordVars, hassVars, badFrom, sawDisconnected, request,
                   calls, healed, poll_interval>>

\* connect() returns or raises to its caller: the coordinator, or
\* _check_response_status, which then raises APIAuthError itself
connect_return ==
    /\ pc = "connect_done"
    /\ IF connCaller = "coordinator"
          THEN IF connOutcome = "True"
                  THEN pc' = "get_devices" /\ UNCHANGED exc
                  ELSE pc' = "raised" /\ exc' = connOutcome
          ELSE /\ pc' = "raised"
               /\ exc' = IF connOutcome = "True" THEN "APIAuthError" ELSE connOutcome
    /\ healed' = IF connCaller = "check" /\ connOutcome = "True"
                     THEN [tokens |-> tokens, domain |-> domain]
                     ELSE healed
    /\ UNCHANGED <<credVars, pureVars, envVars, sessionVars, firstRefresh,
                   connCaller, connOutcome, reqKind, respStatus, loopVars,
                   coordVars, hassVars, badFrom, sawDisconnected, request,
                   calls, poll_interval>>

----------------------------------------------------------------------------
(* api.py: get_devices, _get_data, _check_response_status *)

\* get_devices up to the response of the search request
get_devices ==
    /\ pc = "get_devices"
    /\ device_list' = <<>>
    /\ healed' = None
    /\ IF ~HasBearerToken(tokens)
          THEN /\ exc' = "BearerTokenNotFoundError"
               /\ pc' = "raised"
               /\ UNCHANGED <<reqKind, respStatus, request, calls>>
          ELSE /\ request' = Request(<<"/data/devices/search">>,
                                     get_headers(tokens.IdToken, domain))
               /\ calls' = [calls EXCEPT
                               !.search = @ + 1,
                               !.after_fail = IF badFrom # "none" THEN @ + 1 ELSE @]
               /\ \/ /\ NetworkCanFail
                     /\ exc' = "RequestException"
                     /\ pc' = "raised"
                     /\ UNCHANGED <<reqKind, respStatus>>
                  \/ \E s \in ServiceStatusAnswers(request'.headers) :
                       /\ respStatus' = s
                       /\ reqKind' = "search"
                       /\ pc' = "check_status"
                       /\ UNCHANGED exc
    /\ UNCHANGED <<credVars, pureVars, envVars, sessionVars, firstRefresh,
                   connCaller, connOutcome, devices, idx, telemetry_reqs,
                   coordVars, hassVars, badFrom, sawDisconnected, poll_interval>>

\* _check_response_status on a status other than 200: disconnect(), then
\* connect() is entered
check_response_status_failed ==
    /\ pc = "check_status"
    /\ respStatus # HTTP_OK
    /\ connected' = disconnect.connected
    /\ tokens' = disconnect.tokens
    /\ domain' = disconnect.domain
    /\ badFrom' = reqKind
    /\ sawDisconnected' = ~connected'
    /\ connCaller' = "check"
    /\ pc' = "connect"
    \* the locals of get_devices are not read again: the call ends by raising
    /\ devices' = <<>>
    /\ idx' = 0
    /\ device_list' = <<>>
    /\ telemetry_reqs' = <<>>
    /\ request' = None
    /\ UNCHANGED <<credVars, pureVars, envVars, firstRefresh, connOutcome,
                   reqKind, respStatus, exc, coordVars, hassVars, calls, healed,
                   poll_interval>>

\* get_devices after a 200: response.json()["devices"], then the loop starts
get_devices_response ==
    /\ pc = "check_status"
    /\ reqKind = "search"
    /\ respStatus = HTTP_OK
    /\ \E body \in SearchAnswers :
         IF "devices" \notin DOMAIN body
            THEN /\ exc' = "KeyError"
                 /\ pc' = "raised"
                 /\ UNCHANGED <<devices, idx>>
            ELSE /\ devices' = body.devices
                 /\ idx' = 1
                 /\ pc' = "loop"
                 /\ UNCHANGED exc
    /\ UNCHANGED <<credVars, pureVars, envVars, sessionVars, firstRefresh,
                   connCaller, connOutcome, reqKind, respStatus, device_list,
                   telemetry_reqs, coordVars, hassVars, badFrom, sawDisconnected,
                   request, calls, healed, poll_interval>>

\* one iteration of the loop of get_devices: an unsupported device is skipped,
\* for a supported one _get_data sends its request
get_devices_loop ==
    /\ pc = "loop"
    /\ idx <= Len(devices)
    /\ LET device == devices[idx]
       IN  IF ~IsSupported(device)
              THEN /\ idx' = idx + 1
                   /\ UNCHANGED <<pc, exc, reqKind, respStatus, telemetry_reqs,
                                  request, calls>>
           ELSE IF ~HasBearerToken(tokens)
              THEN /\ exc' = "BearerTokenNotFoundError"
                   /\ pc' = "raised"
                   /\ UNCHANGED <<idx, reqKind, respStatus, telemetry_reqs,
                                  request, calls>>
           ELSE /\ telemetry_reqs' = Append(telemetry_reqs, device.id)
                /\ request' = Request(<<"/data/devices/", device.id>>,
                                      get_headers(tokens.IdToken, domain))
                /\ calls' = [calls EXCEPT
                                !.after_fail = IF badFrom # "none" THEN @ + 1 ELSE @]
                /\ UNCHANGED idx
                /\ \/ /\ NetworkCanFail
                      /\ exc' = "RequestException"
                      /\ pc' = "raised"
                      /\ UNCHANGED <<reqKind, respStatus>>
                   \/ \E s \in ServiceStatusAnswers(request'.headers) :
                        /\ respStatus' = s
                        /\ reqKind' = "telemetry"
                        /\ pc' = "check_status"
                        /\ UNCHANGED exc
    /\ UNCHANGED <<credVars, pureVars, envVars, sessionVars, firstRefresh,
                   connCaller, connOutcome, devices, device_list, coordVars,
                   hassVars, badFrom, sawDisconnected, healed, poll_interval>>

\* _get_data after a 200: the sensors are mapped and the Device is appended
\* a loop that shows the list built so far to the readers of the coordinator
get_data_response_publishes ==
    /\ pc = "check_status"
    /\ reqKind = "telemetry"
    /\ respStatus = HTTP_OK
    /\ \E result \in TelemetryBodies :
         device_list' = Append(device_list,
                               Device(devices[idx], get_data_sensors(result)))
    /\ data' = APIData(controller_name, device_list')
    /\ idx' = idx + 1
    /\ pc' = "loop"
    /\ UNCHANGED <<credVars, pureVars, envVars, sessionVars, firstRefresh,
                   connCaller, connOutcome, reqKind, respStatus, devices,
                   telemetry_reqs, exc, last_update_success, last_exception,
                   dataAtStart, hassVars, badFrom, sawDisconnected, request, calls, healed,
                   poll_interval>>

\* _get_data returned the sensors of devices[idx]: the Device is appended to the
\* local list of get_devices
get_data_response ==
    /\ pc = "check_status"
    /\ reqKind = "telemetry"
    /\ respStatus = HTTP_OK
    /\ \E result \in TelemetryBodies :
         device_list' = Append(device_list,
                               Device(devices[idx], get_data_sensors(result)))
    /\ idx' = idx + 1
    /\ pc' = "loop"
    /\ UNCHANGED <<credVars, pureVars, envVars, sessionVars, firstRefresh,
                   connCaller, connOutcome, reqKind, respStatus, devices,
                   telemetry_reqs, exc, coordVars, hassVars, badFrom,
                   sawDisconnected, request, calls, healed, poll_interval>>

----------------------------------------------------------------------------
(* sensor.py: the entities of the sensor platform *)

\* normalize_fn of internal_temperature, round(float(v) * 0.00835, 1), in
\* tenths of a degree
raw_to_celsius(v) == (v * 835 + 5000) \div 10000

\* native_value: what reading the state of an entity returns or raises
native_value(device, sensor_key, normalize_fn) ==
    IF device = None THEN [raises |-> "AttributeError"]
    ELSE IF sensor_key \notin DOMAIN device.sensors THEN [raises |-> "KeyError"]
    ELSE IF normalize_fn # "None"
         THEN [returns |-> raw_to_celsius(device.sensors[sensor_key].value),
               in |-> "tenths"]
    ELSE [returns |-> device.sensors[sensor_key].value, in |-> "units"]

\* a RadoffSensor entity and the state async_write_ha_state last read for it
Entity(device, sensor_key, normalize_fn) ==
    [device |-> device, sensor_key |-> sensor_key, normalize_fn |-> normalize_fn,
     state |-> native_value(device, sensor_key, normalize_fn)]

\* the names a sensor of a device can have
SensorKeys == UNION {DOMAIN MAPPING[g] : g \in DOMAIN MAPPING}

\* async_setup_entry of the platform: one entity for every sensor of every
\* device of the first snapshot
sensor_async_setup_entry ==
    {Entity(data.devices[i], k, data.devices[i].sensors[k].normalize_fn) :
        <<i, k>> \in {<<j, n>> \in (1..Len(data.devices)) \X SensorKeys :
                         n \in DOMAIN data.devices[j].sensors}}

\* _handle_coordinator_update: the entity looks its device up in the new
\* snapshot and writes its state; with no device held the lookup itself raises
handle_coordinator_update(entity, new_data) ==
    IF entity.device = None THEN entity
    ELSE Entity(ScanDevices(new_data.devices, entity.device.device_type,
                            entity.device.device_id),
                entity.sensor_key, entity.normalize_fn)

\* the update coordinator base class calls every listener after a refresh
listeners_called(ents, new_data) ==
    {handle_coordinator_update(e, new_data) : e \in ents}

----------------------------------------------------------------------------
(* coordinator.py and the update coordinator it extends: end of a refresh *)

\* history: one more refresh has ended since the environment recovered
CountRefresh ==
    IF env_good /\ since_good < MaxCounted THEN since_good + 1 ELSE since_good

\* the update coordinator base class (DataUpdateCoordinator): the data it holds
\* after update_method returned result, and after update_method raised
data_after_success(result) == result

data_after_failure == data

\* async_config_entry_first_refresh raises ConfigEntryNotReady when the first
\* refresh failed; a scheduled refresh that failed is only logged
pc_after_failure == IF firstRefresh THEN "setup_aborted" ELSE "ready"

\* get_devices returns device_list, async_update_data returns the APIData and
\* the update coordinator stores it
StoreResult ==
    /\ pc = "loop"
    /\ idx > Len(devices)
    /\ data' = data_after_success(APIData(controller_name, device_list))
    /\ last_update_success' = TRUE
    /\ last_exception' = None
    /\ pc' = IF firstRefresh THEN "first_refreshed" ELSE "ready"
    /\ since_good' = CountRefresh
    /\ ResetRefreshLocals
    /\ UNCHANGED <<credVars, env_good, sessionVars, firstRefresh, hassVars,
                   dataAtStart, healed, poll_interval>>

\* the refresh with the entities left out of the state
refresh_succeeded ==
    /\ StoreResult
    /\ UNCHANGED pureVars

\* the refresh with the entities: the update coordinator calls the listener of
\* every entity once the new data is stored
refresh_succeeded_notifies ==
    /\ StoreResult
    /\ entities' = listeners_called(entities, data')
    /\ UNCHANGED configVars

\* the except clauses of async_update_data raise; the update coordinator keeps
\* its data, and the first refresh of an entry aborts the setup
refresh_failed ==
    /\ pc = "raised"
    /\ last_exception' = HandleException(exc)
    /\ last_update_success' = FALSE
    /\ data' = data_after_failure
    /\ pc' = pc_after_failure
    /\ since_good' = CountRefresh
    /\ ResetRefreshLocals
    /\ UNCHANGED <<credVars, pureVars, env_good, sessionVars, firstRefresh,
                   hassVars, dataAtStart, healed, poll_interval>>

----------------------------------------------------------------------------
(* __init__.py: async_setup_entry after the first refresh *)

RuntimeData(coordinator, cancel) ==
    [coordinator |-> coordinator, cancel_update_listener |-> cancel]

StoreRuntimeData ==
    /\ pc = "first_refreshed"
    /\ IF ~connected
          THEN /\ pc' = "setup_aborted"
               /\ UNCHANGED hassVars
          ELSE IF RADOFF_DOMAIN \notin DOMAIN hass_data
          \* hass.data[DOMAIN] raises KeyError: the setup ends in an error
          THEN /\ pc' = "setup_error"
               /\ UNCHANGED hassVars
          ELSE /\ hass_data' =
                     [hass_data EXCEPT ![RADOFF_DOMAIN] =
                         DictSet(@, entry_id, RuntimeData(entry_id, "listener"))]
               /\ platform_setup' = TRUE
               /\ pc' = "ready"
    /\ UNCHANGED <<credVars, envVars, sessionVars, firstRefresh, connCaller,
                   connOutcome, reqKind, respStatus, loopVars, exc, coordVars,
                   badFrom, sawDisconnected, request, calls, healed,
                   poll_interval>>

\* the rest of async_setup_entry with the entities left out of the state
async_setup_entry_finish ==
    /\ StoreRuntimeData
    /\ UNCHANGED pureVars

\* the rest of async_setup_entry with the entities the sensor platform adds
async_setup_entry_finish_adds ==
    /\ StoreRuntimeData
    /\ entities' = IF connected THEN sensor_async_setup_entry ELSE entities
    /\ UNCHANGED configVars

----------------------------------------------------------------------------

Next ==
    \/ async_setup_entry
    \/ ScheduledRefresh
    \/ async_update_data
    \/ connect
    \/ get_domain_request
    \/ get_domain_response
    \/ connect_return
    \/ get_devices
    \/ check_response_status_failed
    \/ get_devices_response
    \/ get_devices_loop
    \/ get_data_response
    \/ refresh_succeeded
    \/ refresh_failed
    \/ async_setup_entry_finish

Spec == Init /\ [][Next]_vars

----------------------------------------------------------------------------
(* The environment recovers between two refreshes: from then on the identity
   provider accepts the credentials of the entry, domain discovery returns a
   matching domain and the service answers 200 to a request with a token and
   a resolved domain. The timer of the coordinator is fair and every started
   refresh runs to its end. *)

EnvironmentRecovers ==
    /\ pc = "ready"
    /\ ~env_good
    /\ username # "" /\ password # "" /\ client_id # ""
    /\ env_good' = TRUE
    /\ since_good' = 0
    /\ UNCHANGED <<credVars, pureVars, sessionVars, pc, firstRefresh, connCaller,
                   connOutcome, reqKind, respStatus, loopVars, exc, coordVars,
                   hassVars, badFrom, sawDisconnected, request, calls, healed,
                   poll_interval>>

NextRecovery ==
    \/ Next
    \/ EnvironmentRecovers

SpecRecovery == Init /\ [][NextRecovery]_vars /\ WF_vars(Next)

----------------------------------------------------------------------------
(* Two config entries of the integration: the entry followed so far and a
   second one, whose coordinator is not followed; each can be unloaded *)

\* hass.data after the pop of async_unload_entry
unloaded_data(entry) == pop(hass_data, RADOFF_DOMAIN)

\* async_unload_entry of the entry: hass.data[DOMAIN][entry_id] raises KeyError
\* when the runtime data is gone; otherwise the listener is cancelled, the
\* sensor platform unloaded and hass.data popped
async_unload_entry ==
    /\ pc = "ready"
    /\ IF ~HasRuntimeData(entry_id)
          THEN /\ pc' = "failed_unload"
               /\ UNCHANGED <<hassVars, entities>>
          ELSE /\ hass_data' = unloaded_data(entry_id)
               /\ platform_setup' = FALSE
               /\ entities' = {}
               /\ pc' = "not_loaded"
    /\ UNCHANGED <<credVars, configVars, envVars, sessionVars, firstRefresh,
                   connCaller, connOutcome, reqKind, respStatus, loopVars, exc,
                   coordVars, badFrom, sawDisconnected, request, calls, healed,
                   poll_interval>>

\* async_setup_entry of the second entry, its first refresh having succeeded
other_async_setup_entry ==
    /\ other_entry = "not_loaded"
    /\ hass_data' =
          DictSet(hass_data, RADOFF_DOMAIN,
                  DictSet(setdefault(hass_data, RADOFF_DOMAIN)[RADOFF_DOMAIN],
                          other_entry_id,
                          RuntimeData(other_entry_id, "other_listener")))
    /\ other_entry' = "loaded"
    /\ UNCHANGED <<credVars, options, result_in, sensors_out, entities, envVars,
                   sessionVars, pc, firstRefresh, connCaller, connOutcome,
                   reqKind, respStatus, loopVars, exc, coordVars,
                   platform_setup, badFrom, sawDisconnected, request, calls,
                   healed, poll_interval>>

\* async_unload_entry of the second entry
other_async_unload_entry ==
    /\ other_entry = "loaded"
    /\ IF ~HasRuntimeData(other_entry_id)
          THEN /\ other_entry' = "failed_unload"
               /\ UNCHANGED hass_data
          ELSE /\ hass_data' = unloaded_data(other_entry_id)
               /\ other_entry' = "not_loaded"
    /\ UNCHANGED <<credVars, options, result_in, sensors_out, entities, envVars,
                   sessionVars, pc, firstRefresh, connCaller, connOutcome,
                   reqKind, respStatus, loopVars, exc, coordVars,
                   platform_setup, badFrom, sawDisconnected, request, calls,
                   healed, poll_interval>>

NextEntries ==
    \/ Next
    \/ async_unload_entry
    \/ other_async_setup_entry
    \/ other_async_unload_entry

SpecEntries == Init /\ [][NextEntries]_vars

----------------------------------------------------------------------------
(* The entry with the entities of its sensor platform *)

NextEntities ==
    \/ async_setup_entry
    \/ ScheduledRefresh
    \/ async_update_data
    \/ connect
    \/ get_domain_request
    \/ get_domain_response
    \/ connect_return
    \/ get_devices
    \/ check_response_status_failed
    \/ get_devices_response
    \/ get_devices_loop
    \/ get_data_response
    \/ refresh_succeeded_notifies
    \/ refresh_failed
    \/ async_setup_entry_finish_adds

SpecEntities == Init /\ [][NextEntities]_vars

----------------------------------------------------------------------------
(* The coordinator built for every options record of a config entry *)

InitConfig ==
    /\ InitProgram
    /\ options \in OptionRecords
    /\ result_in = None
    /\ sensors_out = None

NextConfig == async_setup_entry

SpecConfig == InitConfig /\ [][NextConfig]_vars

----------------------------------------------------------------------------
(* _get_data as a function of the telemetry body, on every body *)

InitTelemetry ==
    /\ InitProgram
    /\ options = EmptyDict
    /\ result_in \in TelemetryResults
    /\ sensors_out = None

\* the part of _get_data after response.json()
get_data ==
    /\ result_in # None
    /\ sensors_out = None
    /\ sensors_out' = IF get_data_raises(result_in)
                          THEN [raises |-> "KeyError"]
                          ELSE [returns |-> get_data_sensors(result_in)]
    /\ UNCHANGED <<credVars, envVars, sessionVars, pc, firstRefresh, connCaller,
                   connOutcome, reqKind, respStatus, loopVars, exc, coordVars,
                   hassVars, badFrom, sawDisconnected, request, calls, healed,
                   options, poll_interval, result_in, entities, other_entry>>

NextTelemetry == get_data

SpecTelemetry == InitTelemetry /\ [][NextTelemetry]_vars

TypeOK ==
    /\ connected \in BOOLEAN
    /\ pc \in {"not_loaded", "update", "connect", "get_domain", "domain_resp",
               "connect_done", "get_devices", "check_status", "loop", "raised",
               "first_refreshed", "setup_aborted", "ready", "setup_error",
               "failed_unload"}
    /\ idx \in 0..(MaxDevices + 1)
    /\ other_entry \in {"not_loaded", "loaded", "failed_unload"}

----------------------------------------------------------------------------
(* Properties *)

ClientErrors ==
    {"APIAuthError", "DomainNotFoundError", "BearerTokenNotFoundError",
     "ClientError", "RequestException", "KeyError"}

EntryStored ==
    /\ RADOFF_DOMAIN \in DOMAIN hass_data
    /\ entry_id \in DOMAIN hass_data[RADOFF_DOMAIN]

\* a scheduled refresh has just failed (a first refresh succeeded before it)
ScheduledRefreshFailed == pc = "ready" /\ ~last_update_success

\* C1: a refresh that fails after an earlier success leaves the Snapshot as it
\* was when the refresh began, and what it raises is UpdateFailed carrying the
\* client error as its cause, never the client error itself.
C1_FailedRefreshKeepsSnapshot ==
    ScheduledRefreshFailed =>
        /\ data = dataAtStart
        /\ data # None
        /\ last_exception.kind = "UpdateFailed"
        /\ last_exception.cause \in ClientErrors

C1_Witness ==
    /\ ScheduledRefreshFailed
    /\ Len(data.devices) > 0
    /\ last_exception.cause = "DomainNotFoundError"

\* C2: when get_devices or _get_data got a status other than 200, the session
\* is disconnected right after the response (before connect() is tried again),
\* so connected has been false before the error of the call is raised.
C2_DisconnectBeforeRaise ==
    /\ (pc = "connect" /\ connCaller = "check") => ~connected
    /\ (pc = "raised" /\ badFrom \in {"search", "telemetry"}) => sawDisconnected

C2_Witness ==
    /\ pc = "raised"
    /\ badFrom = "telemetry"
    /\ sawDisconnected
    /\ connected

\* C3: the error raised by the call that saw the non-200 status is always
\* APIAuthError, also when the connect() of the protocol fails.
C3_OnlyAPIAuthErrorSurfaces ==
    (pc = "raised" /\ badFrom # "none") => exc = "APIAuthError"

BetweenClientOperations ==
    pc \in {"not_loaded", "update", "get_devices", "raised", "first_refreshed",
            "setup_aborted", "ready"}

\* C4: between client operations the bearer token and the tenant domain are
\* both present or both absent, and connected implies both are present.
C4_SessionInvariant ==
    BetweenClientOperations =>
        /\ HasBearerToken(tokens) <=> domain # ""
        /\ connected => (HasBearerToken(tokens) /\ domain # "")

\* C5: when connect() fails with DomainNotFoundError, connected is false when
\* the error reaches the caller.
C5_DomainNotFoundLeavesDisconnected ==
    (pc = "connect_done" /\ connOutcome = "DomainNotFoundError") => ~connected

\* C6: whenever connect() returns without raising, connected is true and the
\* bearer token and the tenant domain are populated.
C6_ConnectReturnsConnected ==
    (pc = "connect_done" /\ connOutcome = "True") =>
        (connected /\ HasBearerToken(tokens) /\ domain # "")

\* C7: the refresh enters get_devices only while connected is true.
C7_ListDevicesOnlyConnected ==
    pc = "get_devices" => connected

\* C8: a status other than 200 from any of the three requests triggers
\* disconnect(), one connect() attempt and then APIAuthError.
C8_AnyNon200TriggersProtocol ==
    /\ (pc = "connect_done" /\ reqKind = "domain" /\ respStatus # HTTP_OK) =>
           (connOutcome = "APIAuthError" /\ ~connected)
    /\ (pc = "raised" /\ badFrom # "none") =>
           (sawDisconnected /\ exc = "APIAuthError")

\* C9: when the first refresh of an entry fails, the setup is aborted: no
\* runtime data is stored for the entry and the sensor platform is not set up.
C9_FirstRefreshFailureAbortsSetup ==
    (firstRefresh /\ ~last_update_success) =>
        /\ pc = "setup_aborted"
        /\ ~EntryStored
        /\ ~platform_setup
        /\ data = None

C9_Witness ==
    /\ pc = "setup_aborted"
    /\ ~last_update_success
    /\ last_exception.cause = "APIAuthError"
    /\ RADOFF_DOMAIN \in DOMAIN hass_data

\* the devices of a discovery response whose type is in the allow-list
AllowedSubseq(raw) ==
    SelectSeq(raw, LAMBDA d : \E t \in DEVICE_TYPES :
                                 d \in {r \in RawDevices : "deviceTypeName" \in DOMAIN r
                                                           /\ r.deviceTypeName = t})

SameDevice(dev, raw) ==
    /\ dev.device_id = raw.id
    /\ dev.device_serial = raw.serial
    /\ dev.device_type = raw.deviceTypeName
    /\ dev.name = raw.name

\* C10: the list get_devices builds is the subsequence of the discovery
\* response whose type is in the allow-list, in response order, and telemetry
\* was requested for exactly those devices.
C10_ListIsAllowedSubsequence ==
    pc = "loop" =>
        LET expected == AllowedSubseq(SubSeq(devices, 1, idx - 1))
        IN  /\ Len(device_list) = Len(expected)
            /\ \A i \in 1..Len(expected) : SameDevice(device_list[i], expected[i])
            /\ telemetry_reqs = [i \in 1..Len(expected) |-> expected[i].id]

C10_Witness ==
    /\ pc = "loop"
    /\ idx > Len(devices)
    /\ Len(devices) = MaxDevices
    /\ Len(device_list) = 1
    /\ \E i \in 1..Len(devices) : "deviceTypeName" \notin DOMAIN devices[i]

\* C11: what the readers of the coordinator see changes only when get_devices
\* has gone through the whole discovery response, and then to the complete new
\* list (one Device per allowed device of the response); a telemetry failure
\* in the middle of the loop publishes nothing.
C11_NoPartialSnapshot ==
    [][data' # data =>
          /\ pc = "loop"
          /\ idx > Len(devices)
          /\ data' = APIData(controller_name, device_list)
          /\ Len(device_list) = Len(AllowedSubseq(devices))
          /\ \A i \in 1..Len(device_list) :
                 SameDevice(device_list[i], AllowedSubseq(devices)[i])]_vars

C11_Witness ==
    /\ pc = "check_status"
    /\ reqKind = "telemetry"
    /\ respStatus # HTTP_OK
    /\ Len(device_list) >= 1
    /\ data # None
    /\ Len(data.devices) = 2
    /\ data = dataAtStart

\* C12: within one refresh the search request is sent at most once, nothing
\* is sent after a request was answered with a status other than 200, and
\* connect() is called at most twice, the second time only by the reconnect of
\* _check_response_status.
C12_NoRetryWithinRefresh ==
    /\ calls.search <= 1
    /\ calls.after_fail = 0
    /\ calls.connect <= 2
    /\ calls.connect = 2 => (badFrom # "none" /\ connCaller = "check")
    /\ calls.auth <= calls.connect

C12_Witness ==
    /\ pc = "raised"
    /\ calls.connect = 2
    /\ calls.auth = 2
    /\ calls.search = 1
    /\ badFrom = "telemetry"
    /\ connOutcome = "True"
    /\ connected

\* the property names of a body that are in the mapping table of their group
MappedNames(result) ==
    {pn \in PropertyNames :
        \E g \in {"data", "aggregatedData"} :
            /\ g \in DOMAIN result.data
            /\ \E i \in 1..Len(result.data[g]) : result.data[g][i].propertyName = pn
            /\ \/ g = "data" /\ pn \in {"tvoc", "airqualityindex"}
               \/ g = "aggregatedData" /\ pn = "airqualityindex"}

\* C13: _get_data raises nothing for a property that is in no mapping table,
\* and the sensors it returns are exactly the property names of the body that
\* are in the mapping table of their group.
C13_UnknownPropertiesDropped ==
    sensors_out # None =>
        /\ "returns" \in DOMAIN sensors_out
        /\ DOMAIN sensors_out.returns = MappedNames(result_in)
        /\ \A pn \in DOMAIN sensors_out.returns : sensors_out.returns[pn].name = pn

C13_Witness ==
    /\ sensors_out # None
    /\ "vendorData" \in DOMAIN result_in.data
    /\ "aggregatedData" \in DOMAIN result_in.data
    /\ Len(result_in.data["aggregatedData"]) = 2
    /\ result_in.data["aggregatedData"][1].propertyName = "tvoc"
    /\ result_in.data["aggregatedData"][2].propertyName = "airqualityindex"
    /\ "data" \in DOMAIN result_in.data
    /\ Len(result_in.data["data"]) = 1
    /\ result_in.data["data"][1].propertyName = "vendor_extra"
    /\ DOMAIN sensors_out.returns = {"airqualityindex"}

\* the arguments consumers may pass: types and ids of devices of the account,
\* in the snapshot or not
QueriedTypes == {"Now+", "Other"}

QueriedIds == {"a", "b", "c"}

\* C14: on the last snapshot get_device_by_id returns None when no device has
\* both fields equal to the arguments, and otherwise a device of the snapshot
\* with both fields equal to them (the first one in snapshot order).
C14_GetDeviceByIdExactMatch ==
    data # None =>
        \A t \in QueriedTypes, i \in QueriedIds :
            LET found == get_device_by_id(t, i)
                both == {k \in 1..Len(data.devices) :
                            /\ data.devices[k].device_type = t
                            /\ data.devices[k].device_id = i}
            IN  IF both = {} THEN found = None
                ELSE /\ found # None
                     /\ \E k \in both :
                          /\ found = data.devices[k]
                          /\ \A j \in both : k <= j

C14_Witness ==
    /\ data # None
    /\ Len(data.devices) = 2
    /\ data.devices[1].device_id = "b"
    /\ data.devices[2].device_id = "a"
    /\ get_device_by_id("Now+", "a") = data.devices[2]
    /\ get_device_by_id("Other", "a") = None
    /\ get_device_by_id("Now+", "c") = None

EmptyCredential == username = "" \/ password = "" \/ client_id = ""

CoordinatorBuilt == pc # "not_loaded"

\* C16: for every configuration record the interval the coordinator schedules
\* its refreshes with is at least 10 seconds, and it is 60 seconds when the
\* record has no override.
C16_PollIntervalAtLeastMinimum ==
    CoordinatorBuilt =>
        /\ update_interval >= MIN_SCAN_INTERVAL
        /\ CONF_SCAN_INTERVAL \notin DOMAIN options =>
               update_interval = DEFAULT_SCAN_INTERVAL

\* the positions from the return of the reconnect to the get_devices of the
\* next refresh when that refresh does not call connect()
StraightToGetDevices ==
    pc \in {"raised", "ready", "setup_aborted", "update", "get_devices"}

\* C17: after a refresh failed on a status other than 200 and the connect() of
\* _check_response_status returned without raising, the session stays
\* connected with the tokens and the domain of that connect(), and the next
\* refresh reaches get_devices with them without having called connect().
C17_SelfHealingForNextPoll ==
    healed # None =>
        /\ StraightToGetDevices
        /\ connected
        /\ tokens = healed.tokens
        /\ domain = healed.domain
        /\ HasBearerToken(tokens)
        /\ domain # ""
        /\ pc \in {"update", "get_devices"} => calls.connect = 0

\* the same when the reconnect did establish a session
SelfHealingWhenSessionEstablished ==
    (healed # None /\ HasBearerToken(healed.tokens) /\ healed.domain # "") =>
        /\ StraightToGetDevices
        /\ connected
        /\ tokens = healed.tokens
        /\ domain = healed.domain
        /\ pc \in {"update", "get_devices"} => calls.connect = 0

\* the request awaited is the device search or a telemetry request
DeviceRequestSent ==
    /\ request # None
    /\ request.url # <<"/auth/user/me/domains">>

\* C18: every device search and telemetry request carries a bearer token and a
\* tenant domain id that domain discovery resolved, never the empty initial
\* value, whatever connect() and refresh calls came before.
C18_RequestsCarryResolvedDomain ==
    DeviceRequestSent =>
        /\ request.headers.x_domain # ""
        /\ request.headers.x_domain # PARENT_DOMAIN
        /\ request.headers.authorization[2] \in TokenIds

\* C19: once the environment has recovered, the very next refresh that ends
\* has succeeded, whatever state the coordinator and the session were in.
C19_NextRefreshAfterRecoverySucceeds ==
    (env_good /\ since_good = 1 /\ pc = "ready") => last_update_success

\* the liveness half of C19: after the environment recovered some refresh
\* ends in success
EventuallySucceedsAfterRecovery ==
    env_good ~> (env_good /\ since_good >= 1 /\ pc = "ready" /\ last_update_success)

\* C20: between client operations a session that is not connected holds no
\* token and no domain, whatever connect(), disconnect() and failing requests
\* came before.
C20_DisconnectedSessionIsEmpty ==
    (BetweenClientOperations /\ ~connected) =>
        (tokens = EmptyDict /\ domain = "")

C20_Witness ==
    /\ pc = "raised"
    /\ badFrom = "telemetry"
    /\ sawDisconnected
    /\ ~connected
    /\ connOutcome \notin {"True", "none"}
    /\ calls.auth = 1
    /\ data # None
    /\ tokens = EmptyDict
    /\ domain = ""

\* C21: every entity created from an earlier snapshot holds a device after
\* each successful refresh and the read of its value returns; a device or a
\* sensor key missing from the new snapshot leaves no entity without a device
\* or with a read that raises.
C21_EntitiesKeepTheirDevice ==
    \A e \in entities :
        /\ e.device # None
        /\ "returns" \in DOMAIN e.state

\* C22: with both entries set up, unloading one of them removes the runtime
\* data of that entry only; the runtime data of the other entry is still in
\* hass.data, unchanged.
C22_UnloadLeavesOtherEntries ==
    [][/\ (other_entry = "loaded" /\ other_entry' = "not_loaded"
             /\ HasRuntimeData(entry_id)) =>
            /\ HasRuntimeData(entry_id)'
            /\ hass_data'[RADOFF_DOMAIN][entry_id] = hass_data[RADOFF_DOMAIN][entry_id]
       /\ (platform_setup /\ ~platform_setup' /\ HasRuntimeData(other_entry_id)) =>
            /\ HasRuntimeData(other_entry_id)'
            /\ hass_data'[RADOFF_DOMAIN][other_entry_id] =
                   hass_data[RADOFF_DOMAIN][other_entry_id]]_vars

====
